---- MODULE Spec2Model ----
(***************************************************************************)
(* generate_image.py: a script that draws a blue square on a white 16:9    *)
(* canvas with Pillow and saves it as test.png.                            *)
(*                                                                         *)
(* The model follows the script statement by statement.  One process       *)
(* invocation walks pc through the source lines; the surrounding world is  *)
(* the file test.png in the working directory, the two output streams and  *)
(* the exit status.  A terminated process may be invoked again, up to      *)
(* MaxRuns invocations, on the file system the previous one left behind.   *)
(***************************************************************************)
EXTENDS Integers, Sequences, FiniteSets, TLC

VARIABLES
    pc,        \* source line the interpreter executes next, or "exited"
    ns,        \* the module namespace: bound name -> value
    file,      \* test.png in the working directory: [exists, data]
    before,    \* test.png as it was when the current process started
    writes,    \* paths the current process has opened for writing
    stdout,    \* lines the current process wrote to standard output
    stderr,    \* lines the current process wrote to standard error
    exit,      \* <<>> while running, <<status>> once the process has ended
    pillow,    \* environment: can PIL be imported in this invocation
    run,       \* number of the current invocation, 1..MaxRuns
    observed   \* what each ended invocation left: [before, after, exit, out, err]

vars == <<pc, ns, file, before, writes, stdout, stderr, exit, pillow, run, observed>>

\* Number of invocations of the script that are explored.
MaxRuns == 2

----------------------------------------------------------------------------
(* Literals of the script *)

CanvasWidth == 1600
CanvasHeight == 900
SquareSize == 600
Background == "white"
Fill == "blue"
Target == "test.png"
Diagnostic == "Pillow library not found. Please install it using 'pip install Pillow'"
Confirmation == "Image 'test.png' generated successfully."

----------------------------------------------------------------------------
(* Pillow: colours, images, drawing, PNG encoding *)

\* ImageColor.getrgb for the colour names that occur.
GetRGB(name) ==
    CASE name = "white" -> <<255, 255, 255>>
      [] name = "blue"  -> <<0, 0, 255>>
      [] name = "black" -> <<0, 0, 0>>

\* Mutant: the colour argument is dropped and the canvas gets Pillow's default.
ImageNewDefaultColour(mode, size, color) ==
    [mode |-> mode, size |-> size, bg |-> GetRGB("black"), fills |-> <<>>]

\* Image.new(mode, size, color): a uniform raster.  The raster is kept as the
\* background colour plus the fills applied to it, in order.
ImageNew(mode, size, color) ==
    [mode |-> mode, size |-> size, bg |-> GetRGB(color), fills |-> <<>>]

\* Mutant: the fill stops before the end coordinates.
CoversHalfOpen(box, x, y) ==
    /\ box[1] <= x /\ x < box[3]
    /\ box[2] <= y /\ y < box[4]

\* Does the box [x0, y0, x1, y1] of a rectangle fill cover pixel (x, y)?
\* ImageDraw.rectangle includes both end points.
Covers(box, x, y) ==
    /\ box[1] <= x /\ x <= box[3]
    /\ box[2] <= y /\ y <= box[4]

\* ImageDraw.rectangle(box, fill=color) on image img.
DrawRectangle(img, box, color) ==
    [img EXCEPT !.fills = Append(@, [box |-> box, rgb |-> GetRGB(color)])]

RECURSIVE PixelFrom(_, _, _, _)
PixelFrom(img, x, y, i) ==
    IF i = 0 THEN img.bg
    ELSE IF Covers(img.fills[i].box, x, y) THEN img.fills[i].rgb
    ELSE PixelFrom(img, x, y, i - 1)

\* Image.getpixel((x, y)): the last fill covering the pixel, else the background.
GetPixel(img, x, y) == PixelFrom(img, x, y, Len(img.fills))

\* The pixels of an image: only coordinates inside the raster exist.
InCanvas(img, x, y) ==
    /\ 0 <= x /\ x < img.size[1]
    /\ 0 <= y /\ y < img.size[2]

\* PNG encoding of an RGB image: signature, IHDR, IDAT, IEND.  No text or time
\* chunk is written.
PngEncode(img) ==
    << [type |-> "signature", body |-> <<>>],
       [type |-> "IHDR", body |-> <<img.size[1], img.size[2], 8, 2>>],
       [type |-> "IDAT", body |-> <<img.bg, img.fills>>],
       [type |-> "IEND", body |-> <<>>] >>

IsPng(data) ==
    /\ Len(data) = 4
    /\ data[1].type = "signature" /\ data[2].type = "IHDR"
    /\ data[3].type = "IDAT" /\ data[4].type = "IEND"

\* Image.open of a complete PNG file.
PngDecode(data) ==
    [mode |-> "RGB", size |-> <<data[2].body[1], data[2].body[2]>>,
     bg |-> data[3].body[1], fills |-> data[3].body[2]]

----------------------------------------------------------------------------
(* The working directory *)

NoFile == [exists |-> FALSE, data |-> <<>>]
FileOf(data) == [exists |-> TRUE, data |-> data]

\* Another picture that may lie in the directory
OtherImage ==
    DrawRectangle(ImageNew("RGB", <<4, 3>>, "black"), <<1, 1, 2, 2>>, "white")

\* What test.png may hold before the first invocation: nothing, another
\* picture, bytes that are no PNG, an empty file, the head of a PNG.
PriorFiles ==
    { NoFile,
      FileOf(PngEncode(OtherImage)),
      FileOf(<< [type |-> "text", body |-> <<>>] >>),
      FileOf(<< >>),
      FileOf(SubSeq(PngEncode(OtherImage), 1, 2)) }

\* Mutant: the file is opened for appending.
SavedFileAppended(old, img) == FileOf(old.data \o PngEncode(img))

\* image.save(path) that succeeds: the file is created or truncated and holds
\* the encoding of the image.
SavedFile(old, img) == FileOf(PngEncode(img))

\* image.save(path) that fails after the file was opened: the file was created
\* or truncated and the write stopped after k of the chunks; a file this call
\* created may have been removed again.
TruncatedSaves(old, img) ==
    { FileOf(SubSeq(PngEncode(img), 1, k)) : k \in 0..(Len(PngEncode(img)) - 1) }
    \cup (IF old.exists THEN {} ELSE {NoFile})

\* The interpreter's report of an uncaught exception.
Traceback(line, exc) ==
    << "Traceback (most recent call last):",
       "  File \"generate_image.py\", line " \o line \o ", in <module>",
       exc >>

----------------------------------------------------------------------------
(* The namespace *)

Bound(name) == name \in DOMAIN ns
Bind(name, value) ==
    [n \in (DOMAIN ns) \cup {name} |-> IF n = name THEN value ELSE ns[n]]
Empty == [n \in {} |-> 0]

Observation ==
    [before |-> before, after |-> file, out |-> stdout, err |-> stderr]

----------------------------------------------------------------------------
Init ==
    /\ pc = "l1"
    /\ ns = Empty
    /\ file \in PriorFiles
    /\ before = file
    /\ writes = <<>>
    /\ stdout = <<>>
    /\ stderr = <<>>
    /\ exit = <<>>
    /\ pillow \in BOOLEAN
    /\ run = 1
    /\ observed = <<>>

\* line 1: import sys
ImportSys ==
    /\ pc = "l1"
    /\ ns' = Bind("sys", "module sys")
    /\ pc' = "l3"
    /\ UNCHANGED <<file, before, writes, stdout, stderr, exit, pillow, run, observed>>

\* lines 2-3: from PIL import Image, ImageDraw, when Pillow is installed
ImportPIL ==
    /\ pc = "l3"
    /\ pillow
    /\ ns' = [n \in (DOMAIN ns) \cup {"Image", "ImageDraw"} |->
                 IF n = "Image" THEN "module PIL.Image"
                 ELSE IF n = "ImageDraw" THEN "module PIL.ImageDraw"
                 ELSE ns[n]]
    /\ pc' = "l9"
    /\ UNCHANGED <<file, before, writes, stdout, stderr, exit, pillow, run, observed>>

\* lines 3-4: the import raises ImportError, which the except clause catches
ImportError ==
    /\ pc = "l3"
    /\ ~pillow
    /\ pc' = "l5"
    /\ UNCHANGED <<ns, file, before, writes, stdout, stderr, exit, pillow, run, observed>>

\* Mutant: the file=sys.stderr argument is missing.
PrintDiagnosticToStdout ==
    /\ pc = "l5"
    /\ stdout' = Append(stdout, Diagnostic)
    /\ pc' = "l6"
    /\ UNCHANGED <<ns, file, before, writes, stderr, exit, pillow, run, observed>>

\* line 5: print(..., file=sys.stderr)
PrintDiagnostic ==
    /\ pc = "l5"
    /\ stderr' = Append(stderr, Diagnostic)
    /\ pc' = "l6"
    /\ UNCHANGED <<ns, file, before, writes, stdout, exit, pillow, run, observed>>

\* Mutant: sys.exit() without a status.
ExitStatusZero == <<0>>

\* The status sys.exit(1) ends the process with.
ExitStatus == <<1>>

\* line 6: sys.exit(1)
SysExit ==
    /\ pc = "l6"
    /\ exit' = ExitStatus
    /\ pc' = "exited"
    /\ observed' = Append(observed, Observation @@ [exit |-> exit'])
    /\ UNCHANGED <<ns, file, before, writes, stdout, stderr, pillow, run>>

\* line 9: width, height = 1600, 900
AssignDimensions ==
    /\ pc = "l9"
    /\ ns' = [n \in (DOMAIN ns) \cup {"width", "height"} |->
                 IF n = "width" THEN CanvasWidth
                 ELSE IF n = "height" THEN CanvasHeight
                 ELSE ns[n]]
    /\ pc' = "l10"
    /\ UNCHANGED <<file, before, writes, stdout, stderr, exit, pillow, run, observed>>

\* line 10: image = Image.new("RGB", (width, height), "white")
NewImage ==
    /\ pc = "l10"
    /\ ns' = Bind("image", ImageNew("RGB", <<ns["width"], ns["height"]>>, Background))
    /\ pc' = "l11"
    /\ UNCHANGED <<file, before, writes, stdout, stderr, exit, pillow, run, observed>>

\* line 11: draw = ImageDraw.Draw(image); the context draws into that image
NewDraw ==
    /\ pc = "l11"
    /\ ns' = Bind("draw", [im |-> "image"])
    /\ pc' = "l14"
    /\ UNCHANGED <<file, before, writes, stdout, stderr, exit, pillow, run, observed>>

\* line 14: square_size = 600
AssignSquareSize ==
    /\ pc = "l14"
    /\ ns' = Bind("square_size", SquareSize)
    /\ pc' = "l15"
    /\ UNCHANGED <<file, before, writes, stdout, stderr, exit, pillow, run, observed>>

\* Python's // on integers
FloorDiv(a, b) == a \div b

\* Mutant: the halving is missing.
StartNotHalved(extent, size) == extent - size

\* (extent - size) // 2, the start of a span of `size` centred in `extent`
Start(extent, size) == FloorDiv(extent - size, 2)

\* Mutant: the end is the last pixel of a span of `size` pixels.
EndLastPixel(start, size) == start + size - 1

\* start + size, the end coordinate handed to the rectangle
End(start, size) == start + size

\* line 15: x_start = (width - square_size) // 2
AssignXStart ==
    /\ pc = "l15"
    /\ ns' = Bind("x_start", Start(ns["width"], ns["square_size"]))
    /\ pc' = "l16"
    /\ UNCHANGED <<file, before, writes, stdout, stderr, exit, pillow, run, observed>>

\* line 16: y_start = (height - square_size) // 2
AssignYStart ==
    /\ pc = "l16"
    /\ ns' = Bind("y_start", Start(ns["height"], ns["square_size"]))
    /\ pc' = "l17"
    /\ UNCHANGED <<file, before, writes, stdout, stderr, exit, pillow, run, observed>>

\* line 17: x_end = x_start + square_size
AssignXEnd ==
    /\ pc = "l17"
    /\ ns' = Bind("x_end", End(ns["x_start"], ns["square_size"]))
    /\ pc' = "l18"
    /\ UNCHANGED <<file, before, writes, stdout, stderr, exit, pillow, run, observed>>

\* line 18: y_end = y_start + square_size
AssignYEnd ==
    /\ pc = "l18"
    /\ ns' = Bind("y_end", End(ns["y_start"], ns["square_size"]))
    /\ pc' = "l20"
    /\ UNCHANGED <<file, before, writes, stdout, stderr, exit, pillow, run, observed>>

\* The box argument of line 20
Box == <<ns["x_start"], ns["y_start"], ns["x_end"], ns["y_end"]>>

\* line 20: draw.rectangle([x_start, y_start, x_end, y_end], fill="blue")
Rectangle ==
    /\ pc = "l20"
    /\ ns' = Bind(ns["draw"].im, DrawRectangle(ns[ns["draw"].im], Box, Fill))
    /\ pc' = "l22"
    /\ UNCHANGED <<file, before, writes, stdout, stderr, exit, pillow, run, observed>>

\* line 22: image.save("test.png") succeeds
Save ==
    /\ pc = "l22"
    /\ file' = SavedFile(file, ns["image"])
    /\ writes' = Append(writes, Target)
    /\ pc' = "l23"
    /\ UNCHANGED <<ns, before, stdout, stderr, exit, pillow, run, observed>>

\* Mutant: the failure of the save is swallowed and the script goes on.
SaveFaultSwallowed ==
    /\ pc = "l22"
    /\ \/ /\ file' = file
          /\ writes' = writes
       \/ /\ file' \in TruncatedSaves(file, ns["image"])
          /\ writes' = Append(writes, Target)
    /\ pc' = "l23"
    /\ UNCHANGED <<ns, before, stdout, stderr, exit, pillow, run, observed>>

\* line 22: image.save("test.png") raises OSError.  Nothing catches it: the
\* interpreter reports it on standard error and the process ends with status 1.
SaveFault ==
    /\ pc = "l22"
    /\ \/ /\ file' = file              \* the file could not be opened
          /\ writes' = writes
       \/ /\ file' \in TruncatedSaves(file, ns["image"])
          /\ writes' = Append(writes, Target)
    /\ stderr' = stderr \o Traceback("22", "OSError")
    /\ exit' = <<1>>
    /\ pc' = "exited"
    /\ observed' = Append(observed,
                      [before |-> before, after |-> file', out |-> stdout,
                       err |-> stderr', exit |-> exit'])
    /\ UNCHANGED <<ns, before, stdout, pillow, run>>

\* Mutant: the confirmation is printed ahead of the save.
PrintConfirmationEarly ==
    /\ \/ pc = "l22" /\ stdout = <<>> /\ pc' = "l22"
       \/ pc = "l23" /\ pc' = "end"
    /\ stdout' = Append(stdout, Confirmation)
    /\ UNCHANGED <<ns, file, before, writes, stderr, exit, pillow, run, observed>>

\* line 23: print("Image 'test.png' generated successfully.")
PrintConfirmation ==
    /\ pc = "l23"
    /\ stdout' = Append(stdout, Confirmation)
    /\ pc' = "end"
    /\ UNCHANGED <<ns, file, before, writes, stderr, exit, pillow, run, observed>>

\* end of the module: the interpreter exits with status 0
Finish ==
    /\ pc = "end"
    /\ exit' = <<0>>
    /\ pc' = "exited"
    /\ observed' = Append(observed, Observation @@ [exit |-> exit'])
    /\ UNCHANGED <<ns, file, before, writes, stdout, stderr, pillow, run>>

\* The script is invoked again in the same directory.
Invoke ==
    /\ pc = "exited"
    /\ run < MaxRuns
    /\ run' = run + 1
    /\ pillow' \in BOOLEAN
    /\ pc' = "l1"
    /\ ns' = Empty
    /\ before' = file
    /\ writes' = <<>>
    /\ stdout' = <<>>
    /\ stderr' = <<>>
    /\ exit' = <<>>
    /\ UNCHANGED <<file, observed>>

\* One statement of the script
Statement ==
    \/ ImportSys
    \/ ImportPIL
    \/ ImportError
    \/ PrintDiagnostic
    \/ SysExit
    \/ AssignDimensions
    \/ NewImage
    \/ NewDraw
    \/ AssignSquareSize
    \/ AssignXStart
    \/ AssignYStart
    \/ AssignXEnd
    \/ AssignYEnd
    \/ Rectangle
    \/ Save
    \/ SaveFault
    \/ PrintConfirmation
    \/ Finish

Next == Statement \/ Invoke

\* Up to MaxRuns invocations in the same directory
Spec == Init /\ [][Next]_vars

\* A single invocation, from any prior content of test.png
SpecSingleRun == Init /\ [][Statement]_vars

----------------------------------------------------------------------------
(* Properties *)

Blue == <<0, 0, 255>>
White == <<255, 255, 255>>
Range(seq) == { seq[i] : i \in DOMAIN seq }
Succeeded == pc = "exited" /\ exit = <<0>>
Min(S) == CHOOSE m \in S : \A n \in S : m <= n
Max(S) == CHOOSE m \in S : \A n \in S : n <= m

\* C1: after a successful run test.png holds a 1600x900 white canvas with one
\* blue square that is 600 pixels wide and 600 pixels high and has equal white
\* margins left and right, and above and below.
C1_CenteredSquare600 ==
    Succeeded =>
        /\ IsPng(file.data)
        /\ LET img == PngDecode(file.data)
               w == img.size[1]
               h == img.size[2]
               xs == { x \in 0..(w - 1) :
                         \E y \in 0..(h - 1) : GetPixel(img, x, y) = Blue }
               ys == { y \in 0..(h - 1) :
                         \E x \in 0..(w - 1) : GetPixel(img, x, y) = Blue }
           IN  /\ w = 1600 /\ h = 900
               /\ img.bg = White
               /\ xs # {} /\ ys # {}
               /\ Cardinality(xs) = 600
               /\ Cardinality(ys) = 600
               /\ Min(xs) = (w - 1) - Max(xs)
               /\ Min(ys) = (h - 1) - Max(ys)

\* C2: a run in which Pillow cannot be imported creates no canvas, leaves
\* test.png as it found it, writes nothing to standard output, and ends with
\* status 1 and exactly the diagnostic line on standard error.
C2_MissingPillow ==
    ~pillow =>
        /\ ~Bound("image") /\ ~Bound("draw")
        /\ file = before
        /\ writes = <<>>
        /\ stdout = <<>>
        /\ pc = "exited" => (exit = <<1>> /\ stderr = <<Diagnostic>>)
        /\ pc # "exited" => exit = <<>>

C2_Witness ==
    /\ pc = "exited" /\ ~pillow
    /\ before.exists /\ IsPng(before.data)
    /\ stderr = <<Diagnostic>>

\* C3: the bounding box is x_start = 500, y_start = 150, x_end = 1100,
\* y_end = 750, and the drawn square has its corners at (500,150), (1100,150),
\* (500,750) and (1100,750).
C3_BoundingBox ==
    /\ Bound("x_start") => ns["x_start"] = 500
    /\ Bound("y_start") => ns["y_start"] = 150
    /\ Bound("x_end") => ns["x_end"] = 1100
    /\ Bound("y_end") => ns["y_end"] = 750
    /\ pc = "l20" => Box = <<500, 150, 1100, 750>>
    /\ pc = "l22" =>
          LET img == ns["image"] IN
          /\ \A c \in {<<500, 150>>, <<1100, 150>>, <<500, 750>>, <<1100, 750>>} :
                GetPixel(img, c[1], c[2]) = Blue
          /\ \A c \in {<<499, 149>>, <<1101, 149>>, <<499, 751>>, <<1101, 751>>} :
                GetPixel(img, c[1], c[2]) = White

C3_Witness ==
    /\ pc = "l22"
    /\ Bound("y_end")
    /\ Len(ns["image"].fills) = 1

\* C4: any two successful runs in the same directory leave test.png with the
\* same content, whatever it held before the first of them, and each of them
\* writes the file.
C4_Idempotent ==
    /\ \A i, j \in DOMAIN observed :
          (observed[i].exit = <<0>> /\ observed[j].exit = <<0>>)
              => observed[i].after = observed[j].after
    /\ Succeeded => writes = <<Target>>

C4_Witness ==
    /\ Len(observed) >= 2
    /\ observed[1].exit = <<0>> /\ observed[2].exit = <<0>>
    /\ observed[1].before.exists
    /\ observed[1].before # observed[1].after
    /\ observed[2].before = observed[1].after
    /\ pc = "exited" /\ writes = <<Target>>

\* The two outcomes C5 names, and the one it leaves out
SuccessOutcome ==
    /\ exit = <<0>>
    /\ writes = <<Target>>
    /\ Len(stdout) = 1
    /\ stderr = <<>>
DependencyFailureOutcome ==
    /\ exit # <<0>>
    /\ Len(stderr) = 1
    /\ writes = <<>>
    /\ stdout = <<>>
FaultOutcome ==
    /\ exit # <<0>>
    /\ Len(stderr) > 1
    /\ stderr[1] = "Traceback (most recent call last):"
    /\ stdout = <<>>

\* C5 as stated: every terminated run is a success or a dependency failure,
\* and not both.
C5_TwoOutcomes ==
    pc = "exited" =>
        /\ SuccessOutcome \/ DependencyFailureOutcome
        /\ ~(SuccessOutcome /\ DependencyFailureOutcome)

\* C5 as amended: every terminated run is exactly one of a success, a
\* dependency failure, or an unhandled fault that leaves the interpreter's
\* traceback on standard error, a non-zero status and nothing on standard
\* output.
C5_ThreeOutcomes ==
    pc = "exited" =>
        /\ SuccessOutcome \/ DependencyFailureOutcome \/ FaultOutcome
        /\ ~(SuccessOutcome /\ DependencyFailureOutcome)
        /\ ~(SuccessOutcome /\ FaultOutcome)
        /\ ~(DependencyFailureOutcome /\ FaultOutcome)
        /\ FaultOutcome => pillow
        /\ DependencyFailureOutcome => ~pillow

C5_Witness ==
    /\ pc = "exited"
    /\ Len(observed) >= 2
    /\ observed[1].exit = <<1>> /\ Len(observed[1].err) > 1
    /\ SuccessOutcome

\* C6: after a successful run the pixel at (width/2, height/2) = (800, 450)
\* of test.png is blue.
C6_CentreBlue ==
    Succeeded =>
        /\ IsPng(file.data)
        /\ ns["width"] \div 2 = 800
        /\ ns["height"] \div 2 = 450
        /\ GetPixel(PngDecode(file.data), ns["width"] \div 2, ns["height"] \div 2) = Blue

C6_Witness ==
    /\ Succeeded
    /\ before.exists
    /\ file # before

\* C7: after the draw step the blue pixels of the canvas are exactly those
\* with 500 <= x <= 1100 and 150 <= y <= 750: 601 columns and 601 rows.
C7_InclusiveFill ==
    pc = "l22" =>
        LET img == ns["image"] IN
        /\ img.size = <<1600, 900>>
        /\ \A y \in 0..(img.size[2] - 1) : \A x \in 0..(img.size[1] - 1) :
              (GetPixel(img, x, y) = Blue)
                  <=> (500 <= x /\ x <= 1100 /\ 150 <= y /\ y <= 750)
        /\ Cardinality({ x \in 0..(img.size[1] - 1) : GetPixel(img, x, 450) = Blue }) = 601
        /\ Cardinality({ y \in 0..(img.size[2] - 1) : GetPixel(img, 800, y) = Blue }) = 601

C7_Witness ==
    /\ pc = "l22"
    /\ GetPixel(ns["image"], 1100, 750) = Blue
    /\ GetPixel(ns["image"], 1101, 750) # Blue

\* C8: when the file has been written, every pixel of the 1600x900 canvas
\* outside the bounding box, (0,0) among them, is white, in the canvas and in
\* the file.
C8_OutsideWhite ==
    pc = "l23" =>
        /\ IsPng(file.data)
        /\ LET img == PngDecode(file.data) IN
           /\ img.size = <<1600, 900>>
           /\ GetPixel(img, 0, 0) = White
           /\ GetPixel(ns["image"], 0, 0) = White
           /\ \A y \in 0..(img.size[2] - 1) : \A x \in 0..(img.size[1] - 1) :
                 (x < ns["x_start"] \/ x > ns["x_end"] \/ y < ns["y_start"] \/ y > ns["y_end"])
                     => (GetPixel(img, x, y) = White /\ GetPixel(ns["image"], x, y) = White)

C8_Witness ==
    /\ pc = "l23"
    /\ file.exists
    /\ GetPixel(PngDecode(file.data), 0, 0) = White
    /\ GetPixel(PngDecode(file.data), 800, 450) = Blue

\* C9: a failing save ends the run at once with a non-zero status, without
\* the Pillow diagnostic on standard error and without the confirmation on
\* standard output, and an ended run takes no step but the next invocation.
C9_SaveFaultUncaught ==
    [][ /\ SaveFault =>
              /\ pc' = "exited"
              /\ exit' # <<>> /\ exit' # <<0>>
              /\ Diagnostic \notin Range(stderr')
              /\ stderr' # <<>>
              /\ Confirmation \notin Range(stdout')
              /\ ~DependencyFailureOutcome'
        /\ pc = "exited" => (run' = run + 1 /\ pc' = "l1")
      ]_vars

C9_Witness ==
    /\ pc = "exited"
    /\ pillow
    /\ exit = <<1>>
    /\ stderr = Traceback("22", "OSError")
    /\ stdout = <<>>

\* C10: the canvas exists only after the dependency check, the file is written
\* only after the rectangle has been drawn, and the confirmation is on standard
\* output only when test.png holds the complete encoding of the drawn canvas.
C10_Order ==
    /\ Bound("image") => (Bound("Image") /\ Bound("ImageDraw"))
    /\ writes # <<>> =>
          /\ Bound("image")
          /\ ns["image"].fills = << [box |-> <<500, 150, 1100, 750>>, rgb |-> Blue] >>
    /\ stdout # <<>> =>
          /\ stdout = <<Confirmation>>
          /\ writes = <<Target>>
          /\ IsPng(file.data)
          /\ PngDecode(file.data) = ns["image"]
          /\ Len(ns["image"].fills) = 1
    /\ (writes # <<>> /\ ~IsPng(file.data)) => stdout = <<>>

C10_Witness ==
    /\ pc = "end"
    /\ stdout = <<Confirmation>>
    /\ run = 2
    /\ before.exists

====
